---- MODULE Spec2Model ----
(***************************************************************************)
(* Model of the gci card-lookup scripts.                                   *)
(*   src/gci.py        get_card_info, main                                 *)
(*   src/gci-image.py  capture_card, search_for_card                       *)
(* Python strings are sequences of one-character strings; None is the      *)
(* one-element sequence NoneVal, which no string equals.                   *)
(***************************************************************************)
EXTENDS Integers, Sequences, FiniteSets, TLC

VARIABLES
    pc,              \* position of the running function
    card_name,       \* search_for_card / get_card_info: card_name
    year,            \* year: [str |-> chars] or [int |-> n]
    card_number,     \* card_number / card_num
    variant_name,    \* variant_name
    trading_card,    \* trading_card
    verbose,         \* verbose
    new_card_name,   \* search_for_card: the stripped line read at the prompt
    year_match,      \* search_for_card: group 'value' of year_match, or NoneVal
    today_year,      \* datetime.date.today().year
    raised,          \* an exception left the running function
    scene_name,      \* OBS: current program scene name
    item_enabled,    \* OBS: scene item id -> enabled
    suspend_iter,    \* the items OBS_ITEMS_TO_SUSPEND (a map iterator) still yields
    chroma_key,      \* OBS: 'Chroma Key' filter of the camera source enabled
    cap_released,    \* cap.release() was called on every device capture_card opened
    cards,           \* search_for_card: cards, the value gci.get_card_info returned
    api_key,         \* os.getenv('SPORTS_CARDS_PRO_API_KEY') is set
    via_main,        \* get_card_info was called by main()
    products,        \* get_card_info: products
    filtered_results,\* get_card_info: filtered_results
    index_choice,    \* get_card_info: index_choice: [str |-> chars] or [int |-> n]
    result,          \* get_card_info: result, or NoneVal
    opened_url,      \* URL handed to selenium_driver.get in this call, or NoneVal
    log,             \* rows of card-log.csv
    ret_one,         \* get_card_info returned 1
    exit_code,       \* process exit status of main, -1 while running
    calls            \* get_card_info calls started so far

vars == <<pc, card_name, year, card_number, variant_name, trading_card, verbose,
          new_card_name, year_match, today_year, raised, scene_name,
          item_enabled, suspend_iter, chroma_key, cap_released, cards,
          api_key, via_main,
          products, filtered_results, index_choice, result, opened_url, log,
          ret_one, exit_code, calls>>

parseVars == <<card_name, year, card_number, variant_name, trading_card, verbose,
               new_card_name, year_match, today_year>>
obsVars == <<scene_name, item_enabled, suspend_iter, chroma_key, cap_released,
             cards>>
gciVars == <<api_key, via_main, products, filtered_results, index_choice, result,
             opened_url, log, ret_one, exit_code, calls>>

----------------------------------------------------------------------------
(* Bounds of the model *)

\* chunks joined into one prompt line
MaxChunks == 3
\* products in one API response
MaxProducts == 2
\* get_card_info calls in one behaviour
MaxCalls == 2

----------------------------------------------------------------------------
(* Python str helpers *)

NoneVal == <<"<None>">>

Uppers == <<"A","B","C","D","E","F","G","H","I","J","K","L","M",
            "N","O","P","Q","R","S","T","U","V","W","X","Y","Z">>
Lowers == <<"a","b","c","d","e","f","g","h","i","j","k","l","m",
            "n","o","p","q","r","s","t","u","v","w","x","y","z">>
Digits == <<"0","1","2","3","4","5","6","7","8","9">>

IsDigit(c) == \E i \in 1..10 : Digits[i] = c
IsWord(c) == \/ \E i \in 1..26 : Uppers[i] = c \/ Lowers[i] = c
             \/ IsDigit(c)
             \/ c = "_"
DigitVal(c) == CHOOSE i \in 0..9 : Digits[i + 1] = c

\* str.lower()
LowerChar(c) == IF \E i \in 1..26 : Uppers[i] = c
                THEN Lowers[CHOOSE i \in 1..26 : Uppers[i] = c]
                ELSE c
Lower(s) == [i \in 1..Len(s) |-> LowerChar(s[i])]

\* str.startswith
StartsAt(s, i, p) == /\ i + Len(p) - 1 <= Len(s)
                     /\ \A k \in 1..Len(p) : s[i + k - 1] = p[k]

\* p in s
Contains(s, p) == \E i \in 1..(Len(s) + 1) : StartsAt(s, i, p)

\* str.strip()
RECURSIVE LStrip(_)
LStrip(s) == IF s # <<>> /\ Head(s) = " " THEN LStrip(Tail(s)) ELSE s
RECURSIVE RStrip(_)
RStrip(s) == IF s # <<>> /\ s[Len(s)] = " " THEN RStrip(SubSeq(s, 1, Len(s) - 1)) ELSE s
Strip(s) == RStrip(LStrip(s))

\* str.isdigit()
IsDigitStr(s) == s # <<>> /\ \A i \in 1..Len(s) : IsDigit(s[i])

\* int(s) for a string of digits
RECURSIVE ParseInt(_)
ParseInt(s) == IF s = <<>> THEN 0
               ELSE 10 * ParseInt(SubSeq(s, 1, Len(s) - 1)) + DigitVal(s[Len(s)])

\* str(n) for n >= 0
RECURSIVE IntToStr(_)
IntToStr(n) == IF n < 10 THEN <<Digits[n + 1]>>
               ELSE IntToStr(n \div 10) \o <<Digits[(n % 10) + 1]>>

----------------------------------------------------------------------------
(* The operator regular expressions of search_for_card *)

\* length of the longest run of characters satisfying the class, from s[i]
RECURSIVE RunNotEq(_, _)
RunNotEq(s, i) == IF i <= Len(s) /\ s[i] # "=" THEN 1 + RunNotEq(s, i + 1) ELSE 0
RECURSIVE RunDigits(_, _, _)
RunDigits(s, i, max) == IF max > 0 /\ i <= Len(s) /\ IsDigit(s[i])
                        THEN 1 + RunDigits(s, i + 1, max - 1) ELSE 0
RECURSIVE RunToken(_, _)
RunToken(s, i) == IF i <= Len(s) /\ (IsWord(s[i]) \/ s[i] = "-")
                  THEN 1 + RunToken(s, i + 1) ELSE 0

\* variant_enabled_re = v=(?P<value>[^=]*)
VariantEnabledLen(s, i) ==
    IF StartsAt(s, i, <<"v", "=">>) THEN 2 + RunNotEq(s, i + 2) ELSE 0
\* variant_disabled_re = nv=
VariantDisabledLen(s, i) == IF StartsAt(s, i, <<"n", "v", "=">>) THEN 3 ELSE 0
\* year_operator_re = y=(?P<value>\d{2,4})
YearOperatorLen(s, i) ==
    IF StartsAt(s, i, <<"y", "=">>) /\ RunDigits(s, i + 2, 4) >= 2
    THEN 2 + RunDigits(s, i + 2, 4) ELSE 0
\* NumberOperatorLen with the token allowed to be empty ({0,} for {1,})
NumberOperatorLenEmpty(s, i) ==
    IF StartsAt(s, i, <<"=">>) THEN 1 + RunToken(s, i + 1) ELSE 0

\* number_operator_re = =(?P<value>[\w\d-]{1,})
NumberOperatorLen(s, i) ==
    IF StartsAt(s, i, <<"=">>) /\ RunToken(s, i + 1) >= 1
    THEN 1 + RunToken(s, i + 1) ELSE 0
\* verbose_operator_re = V=
VerboseOperatorLen(s, i) == IF StartsAt(s, i, <<"V", "=">>) THEN 2 ELSE 0
\* trading_card_operator_re = t=
TradingCardOperatorLen(s, i) == IF StartsAt(s, i, <<"t", "=">>) THEN 2 ELSE 0

\* length of the match of regular expression re that starts at s[i], 0 if none
MatchLen(re, s, i) ==
    CASE re = "variant_enabled"  -> VariantEnabledLen(s, i)
      [] re = "variant_disabled" -> VariantDisabledLen(s, i)
      [] re = "year"             -> YearOperatorLen(s, i)
      [] re = "number"           -> NumberOperatorLen(s, i)
      [] re = "verbose"          -> VerboseOperatorLen(s, i)
      [] re = "trading_card"     -> TradingCardOperatorLen(s, i)

\* re.search(s): position of the leftmost match, 0 if there is none
Search(re, s) ==
    IF \E i \in 1..Len(s) : MatchLen(re, s, i) > 0
    THEN CHOOSE i \in 1..Len(s) :
            /\ MatchLen(re, s, i) > 0
            /\ \A j \in 1..(i - 1) : MatchLen(re, s, j) = 0
    ELSE 0

\* match.group('value'): the match at position i without its prefix of length pre
Group(re, s, i, pre) == SubSeq(s, i + pre, i + MatchLen(re, s, i) - 1)

\* re.sub('', s): s without its non-overlapping matches, found left to right
RECURSIVE SubFrom(_, _, _)
SubFrom(re, s, i) ==
    IF i > Len(s) THEN <<>>
    ELSE IF MatchLen(re, s, i) > 0 THEN SubFrom(re, s, i + MatchLen(re, s, i))
    ELSE <<s[i]>> \o SubFrom(re, s, i + 1)
Sub(re, s) == SubFrom(re, s, 1)

----------------------------------------------------------------------------
(* search_for_card: the operator parser applied to the prompt line *)

StrVal(s) == [str |-> s]
IntVal(n) == [int |-> n]

\* ExpandYear with the century test off by one
ExpandYearInclusive(n, today) ==
    IF n < 100
    THEN IF n <= today - 2000 THEN 2000 + n ELSE 1900 + n
    ELSE n

\* lines 145-149: expansion of a two-digit year
ExpandYear(n, today) ==
    IF n < 100
    THEN IF n < today - 2000 THEN 2000 + n ELSE 1900 + n
    ELSE n

\* the fields search_for_card carries through the parse
Fields == [card_name |-> card_name, year |-> year, card_number |-> card_number,
           variant_name |-> variant_name, trading_card |-> trading_card,
           verbose |-> verbose, year_match |-> NoneVal, raised |-> FALSE]

\* lines 115-119: trading-card operator; gives <<line, fields>>
TradingCardStep(line, q) ==
    IF Search("trading_card", line) > 0
    THEN <<Sub("trading_card", line), [q EXCEPT !.trading_card = TRUE]>>
    ELSE <<line, q>>

\* lines 121-126: continuation or replacement of the name; str + on None raises
NameStep(line, q) ==
    IF line # <<>> /\ Head(line) = "+"
    THEN IF q.card_name = NoneVal THEN [q EXCEPT !.raised = TRUE]
         ELSE [q EXCEPT !.card_name = q.card_name \o <<" ">> \o Tail(line)]
    ELSE IF line # <<>> /\ Head(line) = "="
    THEN IF q.card_name = NoneVal THEN [q EXCEPT !.raised = TRUE]
         ELSE [q EXCEPT !.card_name = q.card_name \o <<" ">> \o line]
    ELSE [q EXCEPT !.card_name = line]

\* lines 128-138: variant operators, enabled tested first
VariantStep(q) ==
    LET en == Search("variant_enabled", q.card_name)
        dis == Search("variant_disabled", q.card_name)
    IN IF en > 0
       THEN [q EXCEPT !.variant_name = Strip(Group("variant_enabled", q.card_name, en, 2)),
                      !.card_name = Sub("variant_enabled", q.card_name)]
       ELSE IF dis > 0
       THEN [q EXCEPT !.variant_name = <<>>,
                      !.card_name = Sub("variant_disabled", q.card_name)]
       ELSE q

\* lines 140-150: year operator
YearStep(q, today) ==
    LET m == Search("year", q.card_name)
    IN IF m > 0
       THEN LET value == Group("year", q.card_name, m, 2)
            IN [q EXCEPT !.year_match = value,
                         !.year = IntVal(ExpandYear(ParseInt(value), today)),
                         !.card_name = Sub("year", q.card_name)]
       ELSE q

\* lines 152-156: verbose operator
VerboseStep(q) ==
    IF Search("verbose", q.card_name) > 0
    THEN [q EXCEPT !.verbose = TRUE, !.card_name = Sub("verbose", q.card_name)]
    ELSE q

\* lines 158-162: number operator
NumberStep(q) ==
    LET m == Search("number", q.card_name)
    IN IF m > 0
       THEN [q EXCEPT !.card_number = Group("number", q.card_name, m, 1),
                      !.card_name = Sub("number", q.card_name)]
       ELSE q

\* lines 114-162: the whole parse of a stripped line
ParseLine(line, q, today) ==
    IF line = <<>> THEN q
    ELSE LET t == TradingCardStep(line, q)
             n == NameStep(t[1], t[2])
         IN IF n.raised THEN n
            ELSE NumberStep(VerboseStep(YearStep(VariantStep(n), today)))

----------------------------------------------------------------------------
(* Lines a user types at the prompt *)

sRefractor == <<"R","e","f","r","a","c","t","o","r">>
sMike == <<"M","i","k","e">>
sTrout == <<"T","r","o","u","t">>
sChrome == <<"C","h","r","o","m","e">>
s2011 == <<"2","0","1","1">>
s27 == <<"2","7">>

Chunks == { <<"v","=">> \o sRefractor, <<"n","v","=">>, <<"v","=","X">>,
            <<"y","=","2","4">>, <<"y","=","8","7">>, <<"V","=">>, <<"t","=">>,
            <<"=","1","2","3">>, <<"+">>, sMike, <<"=">> }

\* n chunks separated by single spaces
RECURSIVE Joined(_)
Joined(n) == IF n = 1 THEN Chunks
             ELSE {l \o <<" ">> \o c : l \in Joined(n - 1), c \in Chunks}

YearValues == (5..99) \cup {100, 125, 1987, 2011}
YearLines == {p \o <<"y","=">> \o IntToStr(n) :
                 p \in {<<>>, sMike \o <<" ">>}, n \in YearValues}

Lines == {<<>>, <<" ">>} \cup UNION {Joined(k) : k \in 1..MaxChunks} \cup YearLines

\* the arguments search_for_card holds when it prompts; card_name is the
\* argument, the detected front name, or None when nothing was detected
PromptArgs ==
    { [card_name |-> NoneVal, year |-> StrVal(<<>>), card_number |-> <<>>,
       variant_name |-> <<>>, trading_card |-> FALSE, verbose |-> FALSE],
      [card_name |-> sTrout, year |-> StrVal(<<>>), card_number |-> <<>>,
       variant_name |-> <<>>, trading_card |-> FALSE, verbose |-> FALSE],
      [card_name |-> sTrout, year |-> StrVal(s2011), card_number |-> s27,
       variant_name |-> sChrome, trading_card |-> FALSE, verbose |-> FALSE],
      [card_name |-> sTrout, year |-> StrVal(s2011), card_number |-> s27,
       variant_name |-> sChrome, trading_card |-> TRUE, verbose |-> TRUE] }

Years == {2025, 2026}

----------------------------------------------------------------------------
(* State outside the function a specification is about *)

\* module constants of gci-image.py, at their defaults
OBS_GREEN_SCREEN_SCENE_NAME == "Green Screen"
OBS_ITEMS_TO_SUSPEND == <<1, 9>>
OBS_FTL_ITEM_ID == 8
OBS_FTW_ITEM_ID == 5
SuspendSet == {OBS_ITEMS_TO_SUSPEND[k] : k \in 1..Len(OBS_ITEMS_TO_SUSPEND)}
AllItems == SuspendSet \cup {OBS_FTL_ITEM_ID, OBS_FTW_ITEM_ID}

NoCards == [kind |-> "none", list |-> <<>>]

ObsIdle ==
    /\ scene_name = OBS_GREEN_SCREEN_SCENE_NAME
    /\ item_enabled = [i \in AllItems |-> FALSE]
    /\ suspend_iter = OBS_ITEMS_TO_SUSPEND
    /\ chroma_key = TRUE
    /\ cap_released = TRUE
    /\ cards = NoCards

GciIdle ==
    /\ api_key = TRUE
    /\ via_main = FALSE
    /\ products = <<>>
    /\ filtered_results = <<>>
    /\ index_choice = StrVal(<<>>)
    /\ result = NoneVal
    /\ opened_url = NoneVal
    /\ log = <<>>
    /\ ret_one = FALSE
    /\ exit_code = -1
    /\ calls = 0

----------------------------------------------------------------------------
(* search_for_card, lines 103-162: prompt, second screenshot, parse *)

Prompt(L) ==
    /\ pc = "prompt"
    /\ \E raw \in L :
       \E q \in {ParseLine(Strip(raw), Fields, today_year)} :
            /\ new_card_name' = Strip(raw)
            /\ card_name' = q.card_name
            /\ year' = q.year
            /\ card_number' = q.card_number
            /\ variant_name' = q.variant_name
            /\ trading_card' = q.trading_card
            /\ verbose' = q.verbose
            /\ year_match' = q.year_match
            /\ raised' = q.raised
            /\ pc' = IF q.raised THEN "done" ELSE "number"
    /\ UNCHANGED <<today_year, obsVars, gciVars>>

ParseInit ==
    /\ pc = "prompt"
    /\ \E a \in PromptArgs :
         /\ card_name = a.card_name
         /\ year = a.year
         /\ card_number = a.card_number
         /\ variant_name = a.variant_name
         /\ trading_card = a.trading_card
         /\ verbose = a.verbose
    /\ new_card_name = <<>>
    /\ year_match = NoneVal
    /\ today_year \in Years
    /\ raised = FALSE
    /\ ObsIdle
    /\ GciIdle

PromptLine == Prompt(Lines)

ParseNext == PromptLine

SpecParse == ParseInit /\ [][ParseNext]_vars

----------------------------------------------------------------------------
(* Values shared by search_for_card and get_card_info *)

\* Python truth value of a str or None
Falsy(x) == x = NoneVal \/ x = <<>>

\* str(year)
YearText(y) == IF DOMAIN y = {"str"} THEN y.str ELSE IntToStr(y.int)

\* "{:.02f}".format(cents / 100)
FormatPrice(cents) ==
    IntToStr(cents \div 100) \o <<".">> \o
    <<Digits[((cents % 100) \div 10) + 1], Digits[(cents % 10) + 1]>>

\* float(s) of a price string, in cents
ParsePrice(s) ==
    LET dot == CHOOSE i \in 1..Len(s) : s[i] = "."
    IN ParseInt(SubSeq(s, 1, dot - 1)) * 100 + ParseInt(SubSeq(s, dot + 1, Len(s)))

\* gci.py lines 63-77: the checks that make get_card_info return 1
PreconditionFails(key, name, y) ==
    \/ ~key
    \/ Falsy(name)
    \/ LET text == Strip(YearText(y)) IN text # <<>> /\ ~IsDigitStr(text)

----------------------------------------------------------------------------
(* gci-image.py: capture_card and the OBS side of search_for_card *)

\* capture_card, lines 33-52, for each outcome of cap.read() and cv2.imencode
CaptureCard(frame) ==
    IF frame = "none"
    THEN [ret |-> "None", chroma_key |-> FALSE, cap_released |-> FALSE]
    ELSE [ret |-> IF frame = "encoded" THEN "bytes" ELSE "raise",
          chroma_key |-> TRUE, cap_released |-> TRUE]

Frames == {"none", "encoded", "unencodable"}

\* the arguments lookup() hands to search_for_card
SearchArgs ==
    { [card_name |-> <<>>, card_number |-> <<>>],
      [card_name |-> sTrout, card_number |-> <<>>],
      [card_name |-> sTrout, card_number |-> s27] }

\* lines 90-96: scene check and suspension of the configured items; the loop
\* consumes the module-level map iterator OBS_ITEMS_TO_SUSPEND
Begin ==
    /\ pc \in {"idle", "done"}
    /\ \E a \in SearchArgs :
         /\ card_name' = a.card_name
         /\ card_number' = a.card_number
    /\ year' = StrVal(<<>>)
    /\ variant_name' = <<>>
    /\ trading_card' = FALSE
    /\ verbose' = FALSE
    /\ new_card_name' = <<>>
    /\ year_match' = NoneVal
    /\ raised' = FALSE
    /\ cards' = NoCards
    /\ IF scene_name = OBS_GREEN_SCREEN_SCENE_NAME
       THEN LET ids == {suspend_iter[k] : k \in 1..Len(suspend_iter)}
            IN /\ item_enabled' = [i \in AllItems |->
                                     IF i \in ids THEN FALSE ELSE item_enabled[i]]
               /\ suspend_iter' = <<>>
       ELSE UNCHANGED <<item_enabled, suspend_iter>>
    /\ pc' = "screenshot"
    /\ UNCHANGED <<today_year, scene_name, chroma_key, cap_released, gciVars>>

\* lines 98-100: first screenshot hotkey, then the name is detected if not given
Screenshot ==
    /\ pc = "screenshot"
    /\ pc' = IF Falsy(card_name) THEN "front" ELSE "prompt"
    /\ UNCHANGED <<parseVars, raised, obsVars, gciVars>>

\* lines 100-101 and detect_front_name, lines 55-70
DetectFrontName ==
    /\ pc = "front"
    /\ \E frame \in Frames, text \in {NoneVal, sTrout} :
         LET c == CaptureCard(frame)
         IN /\ chroma_key' = c.chroma_key
            /\ cap_released' = c.cap_released
            /\ raised' = (c.ret = "raise")
            /\ card_name' = IF c.ret = "bytes" THEN text
                            ELSE IF c.ret = "None" THEN NoneVal ELSE card_name
            /\ pc' = IF c.ret = "raise" THEN "done" ELSE "prompt"
    /\ UNCHANGED <<year, card_number, variant_name, trading_card, verbose,
                   new_card_name, year_match, today_year, scene_name,
                   item_enabled, suspend_iter, cards, gciVars>>

\* lines 164-169 and detect_back_number, lines 73-87
DetectBackNumber ==
    /\ pc = "number"
    /\ IF trading_card
       THEN UNCHANGED <<card_number, chroma_key, cap_released, raised>> /\ pc' = "lookup"
       ELSE \E frame \in Frames, text \in {NoneVal, s27, s2011}, typed \in {<<>>, s27} :
              LET detect == Falsy(card_number)
                  c == CaptureCard(frame)
                  failed == detect /\ c.ret = "raise"
                  num == IF ~detect THEN card_number
                         ELSE IF c.ret = "bytes" THEN text ELSE NoneVal
                  ask == \/ Falsy(num)
                         \/ ~IsDigitStr(num)
                         \/ ParseInt(num) > 1900
              IN /\ chroma_key' = IF detect THEN c.chroma_key ELSE chroma_key
                 /\ cap_released' = IF detect THEN c.cap_released ELSE cap_released
                 /\ raised' = failed
                 /\ card_number' = IF failed THEN card_number
                                   ELSE IF ask /\ typed # <<>> THEN typed ELSE num
                 /\ pc' = IF failed THEN "done" ELSE "lookup"
    /\ UNCHANGED <<card_name, year, variant_name, trading_card, verbose,
                   new_card_name, year_match, today_year, scene_name,
                   item_enabled, suspend_iter, cards, gciVars>>

\* what gci.get_card_info can hand back: 1, or the list of selected cards
CardResults(name, y) ==
    {[kind |-> "one", list |-> <<>>]} \cup
    IF PreconditionFails(TRUE, name, y) THEN {}
    ELSE {[kind |-> "list", list |-> <<>>]} \cup
         {[kind |-> "list",
           list |-> <<[Sell |-> FormatPrice(sell), PSA_10 |-> FormatPrice(psa)]>>] :
              sell \in {50, 300, 600}, psa \in {1000, 4000}}

\* lines 171-193: the lookup and the overlay it starts; cards[0] on 1 raises
PlayOverlay ==
    /\ pc = "lookup"
    /\ \E c \in CardResults(card_name, year) :
         /\ cards' = c
         /\ IF c.kind = "one"
            THEN raised' = TRUE /\ pc' = "done" /\ UNCHANGED item_enabled
            ELSE /\ raised' = FALSE
                 /\ pc' = "overlay"
                 /\ IF c.list = <<>> THEN UNCHANGED item_enabled
                    ELSE LET sell_price == ParsePrice(c.list[1].Sell)
                             psa10_price == ParsePrice(c.list[1].PSA_10)
                         IN IF sell_price < 100 /\ psa10_price < 1500
                            THEN item_enabled' = [item_enabled EXCEPT ![OBS_FTL_ITEM_ID] = TRUE]
                            ELSE IF sell_price > 500 /\ psa10_price > 3000
                            THEN item_enabled' = [item_enabled EXCEPT ![OBS_FTW_ITEM_ID] = TRUE]
                            ELSE UNCHANGED item_enabled
    /\ UNCHANGED <<parseVars, scene_name, suspend_iter, chroma_key, cap_released,
                   gciVars>>

\* lines 195-198: both overlays are switched off and cards is returned
ResetOverlays ==
    /\ pc = "overlay"
    /\ item_enabled' = [item_enabled EXCEPT ![OBS_FTL_ITEM_ID] = FALSE,
                                            ![OBS_FTW_ITEM_ID] = FALSE]
    /\ pc' = "done"
    /\ UNCHANGED <<parseVars, raised, scene_name, suspend_iter, chroma_key,
                   cap_released, cards, gciVars>>

\* OBS is driven by its operator as well: between lookups the program scene
\* is switched and suspended items are shown again
SwitchScene ==
    /\ pc \in {"idle", "done"}
    /\ scene_name' = IF scene_name = OBS_GREEN_SCREEN_SCENE_NAME
                     THEN "Other" ELSE OBS_GREEN_SCREEN_SCENE_NAME
    /\ UNCHANGED <<pc, parseVars, raised, item_enabled, suspend_iter, chroma_key,
                   cap_released, cards, gciVars>>

ShowItem ==
    /\ pc \in {"idle", "done"}
    /\ \E i \in SuspendSet :
         /\ ~item_enabled[i]
         /\ item_enabled' = [item_enabled EXCEPT ![i] = TRUE]
    /\ UNCHANGED <<pc, parseVars, raised, scene_name, suspend_iter, chroma_key,
                   cap_released, cards, gciVars>>

ObsLines == {<<>>, <<"t","=">>, <<"=","1","2","3">>, sMike, <<"+">> \o sMike}

PromptShort == Prompt(ObsLines)

ObsInit ==
    /\ pc = "idle"
    /\ card_name = <<>>
    /\ year = StrVal(<<>>)
    /\ card_number = <<>>
    /\ variant_name = <<>>
    /\ trading_card = FALSE
    /\ verbose = FALSE
    /\ new_card_name = <<>>
    /\ year_match = NoneVal
    /\ today_year \in Years
    /\ raised = FALSE
    /\ scene_name \in {OBS_GREEN_SCREEN_SCENE_NAME, "Other"}
    /\ item_enabled = [i \in AllItems |-> i \in SuspendSet]
    /\ suspend_iter = OBS_ITEMS_TO_SUSPEND
    /\ chroma_key = TRUE
    /\ cap_released = TRUE
    /\ cards = NoCards
    /\ GciIdle

ObsNext ==
    \/ Begin
    \/ Screenshot
    \/ DetectFrontName
    \/ PromptShort
    \/ DetectBackNumber
    \/ PlayOverlay
    \/ ResetOverlays
    \/ SwitchScene
    \/ ShowItem

SpecObs == ObsInit /\ [][ObsNext]_vars

(* Claims about capture_card and the suspension of scene items, under SpecObs *)

\* C9: whenever capture_card has returned, the 'Chroma Key' filter is enabled
\* again and the capture device has been released.
C9_ChromaKeyRestored == chroma_key /\ cap_released

\* C10: in every invocation of search_for_card made in the green-screen scene,
\* each item of OBS_ITEMS_TO_SUSPEND has been disabled when the screenshot
\* hotkey is triggered.
C10_ItemsSuspended ==
    (pc = "screenshot" /\ scene_name = OBS_GREEN_SCREEN_SCENE_NAME)
    => \A i \in SuspendSet : ~item_enabled[i]

----------------------------------------------------------------------------
(* gci.py: get_card_info and main *)

sMikeTrout == sMike \o <<" ">> \o sTrout
sBracketed == sMikeTrout \o <<" ", "[">> \o sRefractor \o <<"]">>
sNumbered == sMikeTrout \o <<" ", "#">> \o s27
sTopps2011 == s2011 \o <<" ","T","o","p","p","s">>
sTopps2012 == <<"2","0","1","2"," ","T","o","p","p","s">>
sBadYear == <<"2","0","x","1">>
sLowerRefractor == Lower(sRefractor)

\* line 81
SportsDomain == <<"h","t","t","p","s",":","/","/","w","w","w",".","s","p","o","r","t","s","c","a","r","d","s","p","r","o",".","c","o","m">>
TradingDomain == <<"h","t","t","p","s",":","/","/","w","w","w",".","p","r","i","c","e","c","h","a","r","t","i","n","g",".","c","o","m">>
\* lines 82-83
ProductUrl(tc) == (IF tc THEN TradingDomain ELSE SportsDomain) \o <<"/","g","a","m","e","/">>

\* products of the price API as its JSON gives them; the last has no prices
RawProducts ==
    { [product_name |-> sBracketed, console_name |-> sTopps2011, id |-> 1,
       retail_loose_buy |-> 400, retail_loose_sell |-> 600,
       graded_price |-> 2500, manual_only_price |-> 4000],
      [product_name |-> sMikeTrout, console_name |-> sTopps2011, id |-> 2,
       retail_loose_buy |-> 25, retail_loose_sell |-> 50,
       graded_price |-> 500, manual_only_price |-> 1000],
      [product_name |-> sNumbered, console_name |-> sTopps2012, id |-> 3] }

RECURSIVE Responses(_)
Responses(n) == IF n = 0 THEN {<<>>}
                ELSE Responses(n - 1) \cup
                     {Append(r, p) : r \in {x \in Responses(n - 1) : Len(x) = n - 1},
                                     p \in RawProducts}

\* product.get(key) or 0
PriceOrZero(product, key) == IF key \in DOMAIN product THEN product[key] ELSE 0

\* lines 106-114: one normalised product
Normalise(product, tc) ==
    [Name |-> product.product_name,
     Set |-> product.console_name,
     Buy |-> FormatPrice(PriceOrZero(product, "retail_loose_buy")),
     Sell |-> FormatPrice(PriceOrZero(product, "retail_loose_sell")),
     PSA_9 |-> FormatPrice(PriceOrZero(product, "graded_price")),
     PSA_10 |-> FormatPrice(PriceOrZero(product, "manual_only_price")),
     URL |-> ProductUrl(tc) \o IntToStr(product.id)]

\* lines 137-141: the variant test of a bracketed name; "skip", "keep", or
\* "raise" when variant_name is None (None has no strip)
VariantTest(name, variant) ==
    IF ~Contains(name, <<"[">>) THEN "keep"
    ELSE IF variant = NoneVal THEN "raise"
    ELSE IF Strip(variant) # <<>> /\ ~Contains(name, Strip(variant)) THEN "skip"
    ELSE "keep"

\* lines 124-143: the verdict on one product of a sports-card query
Verdict(product, y, num, variant) ==
    LET console == Lower(product.Set)
        name == Lower(product.Name)
    IN IF y # <<>> /\ ~Contains(console, y) /\ ~Contains(name, y) THEN "skip"
       ELSE IF ~Falsy(num) /\ ~Contains(name, Lower(Strip(num))) THEN "skip"
       ELSE VariantTest(name, variant)

\* lines 118-143: filtered_results, and whether the loop raised
RECURSIVE FilterFrom(_, _, _, _, _)
FilterFrom(ps, i, y, num, variant) ==
    IF i > Len(ps) THEN [list |-> <<>>, raised |-> FALSE]
    ELSE LET v == Verdict(ps[i], y, num, variant)
         IN IF v = "raise" THEN [list |-> <<>>, raised |-> TRUE]
            ELSE LET rest == FilterFrom(ps, i + 1, y, num, variant)
                 IN IF v = "keep"
                    THEN [list |-> <<ps[i]>> \o rest.list, raised |-> rest.raised]
                    ELSE rest
Filter(ps, tc, y, num, variant) ==
    IF tc THEN [list |-> ps, raised |-> FALSE]
    ELSE FilterFrom(ps, 1, y, num, variant)

\* lines 145-146: product['Index'] = i
WithIndex(ps) == [i \in 1..Len(ps) |-> [Index |-> i] @@ ps[i]]

\* result.pop('Index')
PopIndex(d) == [f \in DOMAIN d \ {"Index"} |-> d[f]]

\* line 175
FIELDNAMES == {"Name", "Set", "Buy", "Sell", "PSA_9", "PSA_10", "URL"}

\* csv.DictWriter.writeheader
HeaderRow ==
    [Name |-> <<"N","a","m","e">>, Set |-> <<"S","e","t">>, Buy |-> <<"B","u","y">>,
     Sell |-> <<"S","e","l","l">>, PSA_9 |-> <<"P","S","A","_","9">>,
     PSA_10 |-> <<"P","S","A","_","1","0">>, URL |-> <<"U","R","L">>]

\* NeedsHeader without the test of the file position
NeedsHeaderAlways(rows) == TRUE

\* line 177: not fh.tell(), the file opened for appending is empty
NeedsHeader(rows) == rows = <<>>

\* lines 174-181: the log after the selected record is written; a key outside
\* fieldnames makes DictWriter.writerow raise after the header went out
AppendToLog(rows, d) ==
    LET headed == IF NeedsHeader(rows) THEN Append(rows, HeaderRow) ELSE rows
        row == PopIndex(d)
    IN IF DOMAIN row \subseteq FIELDNAMES
       THEN [log |-> Append(headed, [f \in FIELDNAMES |-> row[f]]), raised |-> FALSE]
       ELSE [log |-> headed, raised |-> TRUE]

\* int(input('Choice [1]: ') or '1'): [int |-> k], or [str |-> typed] on ValueError
ParseChoice(typed) ==
    LET text == IF typed = <<>> THEN <<"1">> ELSE typed
    IN IF IsDigitStr(text) THEN IntVal(ParseInt(text))
       ELSE IF Head(text) = "-" /\ IsDigitStr(Tail(text)) THEN IntVal(0 - ParseInt(Tail(text)))
       ELSE StrVal(text)

\* lines 164-168: filtered_results[index_choice - 1] as Python indexes a list:
\* the 1-based position of the element, 0 when the index is out of range
Selected(k, n) ==
    IF 0 <= k - 1 /\ k - 1 < n THEN k
    ELSE IF k - 1 < 0 /\ 0 - n <= k - 1 THEN n + k
    ELSE 0

ChoiceInputs == {<<>>, <<"a">>, <<"0">>, <<"1">>, <<"2">>, <<"3">>, <<"4">>,
                 <<"-","1">>, <<"-","2">>, <<"-","3">>}

\* the arguments get_card_info is called with from Python code
DirectArgs ==
    [card_name : {<<>>, sMikeTrout},
     year : {StrVal(<<>>), StrVal(s2011), StrVal(sBadYear)},
     card_number : {<<>>, s27},
     variant_name : {<<>>, sRefractor, sLowerRefractor},
     trading_card : BOOLEAN,
     verbose : {FALSE}]

\* the arguments main() builds with argparse: at least one name word, year an
\* int by default or the text given, variant None unless given
MainArgs ==
    [card_name : {sMikeTrout},
     year : {IntVal(2011), StrVal(sBadYear)},
     card_number : {<<>>, s27},
     variant_name : {NoneVal, sRefractor},
     trading_card : BOOLEAN,
     verbose : {FALSE}]

\* lines 62-77: entry of get_card_info and its precondition checks
Enter(m, args) ==
    /\ pc = "idle"
    /\ calls < MaxCalls
    /\ calls' = calls + 1
    /\ via_main' = m
    /\ \E a \in args, key \in BOOLEAN :
         /\ api_key' = key
         /\ card_name' = a.card_name
         /\ year' = a.year
         /\ card_number' = a.card_number
         /\ variant_name' = a.variant_name
         /\ trading_card' = a.trading_card
         /\ verbose' = a.verbose
         /\ ret_one' = PreconditionFails(key, a.card_name, a.year)
         /\ pc' = IF PreconditionFails(key, a.card_name, a.year) THEN "returned" ELSE "request"
    /\ products' = <<>>
    /\ filtered_results' = <<>>
    /\ index_choice' = StrVal(<<>>)
    /\ result' = NoneVal
    /\ opened_url' = NoneVal
    /\ exit_code' = -1
    /\ raised' = FALSE
    /\ UNCHANGED <<new_card_name, year_match, today_year, obsVars, log>>

\* get_card_info called from Python (search_for_card)
Call == Enter(FALSE, DirectArgs)

\* lines 186-205: main() parses the command line and calls get_card_info
Main == Enter(TRUE, MainArgs)

\* lines 93-150: the HTTP request, normalisation, filtering and indexing
Request ==
    /\ pc = "request"
    /\ \/ \* lines 96-98 and 102-104: request failed, or the body is not JSON
          /\ ret_one' = TRUE
          /\ pc' = "returned"
          /\ UNCHANGED <<products, filtered_results, result, raised>>
       \/ \E raw \in Responses(MaxProducts) :
          \E ps \in {[i \in 1..Len(raw) |-> Normalise(raw[i], trading_card)]} :
          \E f \in {Filter(ps, trading_card, Strip(YearText(year)), card_number,
                           variant_name)} :
          \E indexed \in {WithIndex(f.list)} :
               /\ products' = ps
               /\ raised' = f.raised
               /\ ret_one' = FALSE
               /\ filtered_results' = IF f.raised THEN <<>> ELSE indexed
               /\ result' = IF ~f.raised /\ Len(indexed) = 1 THEN indexed[1] ELSE NoneVal
               /\ pc' = IF f.raised \/ indexed = <<>> THEN "returned"
                        ELSE IF Len(indexed) = 1 THEN "open" ELSE "menu"
    /\ UNCHANGED <<api_key, via_main, index_choice, opened_url, log, exit_code, calls,
                   parseVars, obsVars>>

\* lines 152-169: one answer at the menu prompt
MenuChoice ==
    /\ pc = "menu"
    /\ \E typed \in ChoiceInputs :
         LET c == ParseChoice(typed)
         IN /\ index_choice' = c
            /\ IF DOMAIN c = {"str"}
               THEN UNCHANGED <<pc, result, filtered_results, raised>>
               ELSE LET at == Selected(c.int, Len(filtered_results))
                    IN IF at = 0
                       THEN /\ raised' = TRUE
                            /\ pc' = "returned"
                            /\ UNCHANGED <<result, filtered_results>>
                       ELSE /\ result' = filtered_results[at]
                            /\ filtered_results' = <<filtered_results[at]>>
                            /\ pc' = "open"
                            /\ UNCHANGED raised
    /\ UNCHANGED <<api_key, via_main, products, opened_url, log, ret_one, exit_code,
                   calls, parseVars, obsVars>>

\* lines 171-183: the browser tab, the log row and the return
OpenAndLog ==
    /\ pc = "open"
    /\ \E alive \in BOOLEAN :
         opened_url' = IF alive THEN result.URL ELSE NoneVal
    /\ \E w \in {AppendToLog(log, result)} :
          /\ log' = w.log
          /\ raised' = w.raised
          /\ result' = IF w.raised THEN result ELSE PopIndex(result)
          /\ filtered_results' = IF w.raised THEN filtered_results
                                 ELSE <<PopIndex(result)>>
    /\ pc' = "returned"
    /\ UNCHANGED <<api_key, via_main, products, index_choice, ret_one, exit_code,
                   calls, parseVars, obsVars>>

\* line 206: sys.exit(0 if results else 1); an uncaught exception exits with 1
Exit ==
    /\ pc = "returned"
    /\ via_main
    /\ exit_code' = IF raised THEN 1
                    ELSE IF ret_one \/ filtered_results # <<>> THEN 0 ELSE 1
    /\ pc' = "exited"
    /\ UNCHANGED <<api_key, via_main, products, filtered_results, index_choice,
                   result, opened_url, log, ret_one, calls, raised, parseVars, obsVars>>

\* the call is over: its frame is gone, and the caller, or the shell after
\* the process has exited, goes on to the next lookup
Resume ==
    /\ pc = "exited" \/ (pc = "returned" /\ ~via_main)
    /\ pc' = "idle"
    /\ api_key' = TRUE
    /\ via_main' = FALSE
    /\ card_name' = <<>>
    /\ year' = StrVal(<<>>)
    /\ card_number' = <<>>
    /\ variant_name' = <<>>
    /\ trading_card' = FALSE
    /\ verbose' = FALSE
    /\ products' = <<>>
    /\ filtered_results' = <<>>
    /\ index_choice' = StrVal(<<>>)
    /\ result' = NoneVal
    /\ opened_url' = NoneVal
    /\ ret_one' = FALSE
    /\ exit_code' = -1
    /\ raised' = FALSE
    /\ UNCHANGED <<new_card_name, year_match, today_year, obsVars, log, calls>>

CardInit ==
    /\ pc = "idle"
    /\ card_name = <<>>
    /\ year = StrVal(<<>>)
    /\ card_number = <<>>
    /\ variant_name = <<>>
    /\ trading_card = FALSE
    /\ verbose = FALSE
    /\ new_card_name = <<>>
    /\ year_match = NoneVal
    /\ today_year = 2025
    /\ raised = FALSE
    /\ ObsIdle
    /\ GciIdle

CardNext ==
    \/ Call
    \/ Main
    \/ Request
    \/ MenuChoice
    \/ OpenAndLog
    \/ Exit
    \/ Resume

SpecCard == CardInit /\ [][CardNext]_vars

(* Claims about get_card_info and main, checked under SpecCard *)

\* the sports-card filter has run on a response and nothing was selected yet
Filtered ==
    /\ pc \in {"menu", "open", "returned"}
    /\ products # <<>>
    /\ ~trading_card /\ ~raised /\ ~ret_one
    /\ index_choice = StrVal(<<>>)

Survives(p) == \E i \in 1..Len(filtered_results) : PopIndex(filtered_results[i]) = p

\* C1: a product with a bracketed name survives only if the variant is
\* non-empty and occurs in the product name; with variant "Refractor", year
\* 2011 and no number the record "Mike Trout [Refractor]" survives.
C1_BracketedNeedsVariant ==
    Filtered =>
      \A i \in 1..Len(products) :
        LET p == products[i]
        IN Contains(p.Name, <<"[">>) =>
             /\ Survives(p) => /\ ~Falsy(variant_name)
                               /\ Strip(variant_name) # <<>>
                               /\ Contains(Lower(p.Name), Lower(Strip(variant_name)))
             /\ (/\ variant_name = sRefractor
                 /\ p.Name = sBracketed
                 /\ Strip(YearText(year)) = s2011
                 /\ card_number = <<>>) => Survives(p)

\* C2: main exits with 0 exactly when get_card_info produced at least one
\* result, and with 1 in every other case.
C2_ExitCode ==
    pc = "exited" =>
      /\ exit_code \in {0, 1}
      /\ exit_code = 0 <=> (~raised /\ ~ret_one /\ filtered_results # <<>>)

\* C7: at the menu a choice of 0 or less selects, opens and logs nothing; a
\* record is selected only for a choice of 1 or more, and its Index is the choice.
C7_NonPositiveAborts ==
    DOMAIN index_choice = {"int"} =>
      /\ index_choice.int <= 0 => /\ result = NoneVal
                                  /\ opened_url = NoneVal
                                  /\ calls = 1 => log = <<>>
      /\ result # NoneVal => /\ index_choice.int >= 1
                             /\ pc = "open" => result.Index = index_choice.int

IsPrefix(a, b) == Len(a) <= Len(b) /\ SubSeq(b, 1, Len(a)) = a

\* C8: the log starts with the header row, which occurs exactly once; no row
\* carries Index; rows are never changed or removed, and every call appends
\* at most one record.
C8_LogAppendOnly ==
    /\ [](/\ log # <<>> => log[1] = HeaderRow
          /\ \A i \in 2..Len(log) : log[i] # HeaderRow
          /\ \A i \in 1..Len(log) : DOMAIN log[i] = FIELDNAMES
          /\ Len(log) <= calls + 1)
    /\ [][/\ IsPrefix(log, log')
          /\ Len(log') <= Len(log) + (IF log = <<>> THEN 2 ELSE 1)]_vars

C8_Witness ==
    /\ pc = "returned"
    /\ calls = 2
    /\ Len(log) = 3
    /\ log[1] = HeaderRow
    /\ log[3] = result

----------------------------------------------------------------------------
(* Claims about the operator parser, checked under SpecParse *)

Parsed == pc = "number"

\* the line holds nv= and, elsewhere, v=<value> with a non-empty value
HasDisabledAndEnabled(l) ==
    /\ Contains(l, <<"n","v","=">>)
    /\ \E j \in 1..Len(l) :
         /\ StartsAt(l, j, <<"v","=">>)
         /\ ~(j > 1 /\ l[j - 1] = "n")
         /\ j + 2 <= Len(l)
         /\ l[j + 2] \notin {"=", " "}

\* C3: a line holding both nv= and v=X leaves the variant empty (disabled wins).
C3_DisabledWins ==
    (Parsed /\ HasDisabledAndEnabled(new_card_name)) => variant_name = <<>>

\* the operators the line may hold beside v=Refractor
OperatorTokens == { <<"v","=">> \o sRefractor, <<"y","=","2","4">>, <<"y","=","8","7">>,
                    <<"V","=">>, <<"t","=">>, <<"=","1","2","3">> }

\* the line is made of operators only, separated by single spaces
RECURSIVE OperatorsOnly(_)
OperatorsOnly(l) ==
    \E t \in OperatorTokens :
       \/ l = t
       \/ /\ StartsAt(l, 1, t \o <<" ">>)
          /\ OperatorsOnly(SubSeq(l, Len(t) + 2, Len(l)))

\* C4: a line holding v=Refractor, alone or with other operators before or
\* after it, sets the variant to exactly "Refractor" and the resulting card
\* name does not contain v=Refractor.
C4_VariantIsolated ==
    (/\ Parsed
     /\ OperatorsOnly(new_card_name)
     /\ Cardinality({i \in 1..Len(new_card_name) :
                       StartsAt(new_card_name, i, <<"v","=">>)}) = 1
     /\ Contains(new_card_name, <<"v","=">> \o sRefractor))
    => /\ variant_name = sRefractor
       /\ ~Contains(card_name, <<"v","=">> \o sRefractor)

\* the year the claim expects for the value n in year today
ExpectedYear(n, today) ==
    IF n >= 100 THEN n
    ELSE IF n < today - 2000 THEN 2000 + n ELSE 1900 + n

\* C5: a two-digit value yy (10..99) taken by the y= operator is passed on as
\* 2000+yy when yy < Y-2000 and as 1900+yy otherwise; a value of 100 or more
\* is passed on unchanged.
C5_YearExpansion ==
    Parsed =>
      \A n \in (10..99) \cup {100, 125, 1987, 2011} :
        /\ year_match = IntToStr(n) => year = IntVal(ExpectedYear(n, today_year))
        /\ new_card_name \in {<<"y","=">> \o IntToStr(n),
                              sMike \o <<" ", "y","=">> \o IntToStr(n)}
           => year = IntVal(ExpectedYear(n, today_year))

C5_Witness ==
    /\ Parsed
    /\ new_card_name = <<"y","=","2","4">>
    /\ today_year = 2025
    /\ year = IntVal(2024)

\* the line holds none of the operators t=, leading + or =, v=, nv=, y=, V=, =<token>
NoOperator(l) ==
    /\ l = <<>> \/ Head(l) \notin {"+", "="}
    /\ ~Contains(l, <<"t","=">>)
    /\ ~Contains(l, <<"v","=">>)
    /\ ~Contains(l, <<"V","=">>)
    /\ ~\E i \in 1..Len(l) : /\ StartsAt(l, i, <<"y","=">>)
                             /\ i + 3 <= Len(l)
                             /\ IsDigit(l[i + 2]) /\ IsDigit(l[i + 3])
    /\ ~\E i \in 1..(Len(l) - 1) : /\ l[i] = "="
                                   /\ IsWord(l[i + 1]) \/ l[i + 1] = "-"

ParsesNoOperatorLine == pc = "prompt" /\ pc' # "prompt" /\ NoOperator(new_card_name')

\* C6 as stated: a line without operators leaves card name, year, card
\* number, variant, trading-card flag and verbose flag unchanged.
C6_AllFieldsUnchanged ==
    [][ParsesNoOperatorLine =>
         /\ card_name' = card_name
         /\ year' = year
         /\ card_number' = card_number
         /\ variant_name' = variant_name
         /\ trading_card' = trading_card
         /\ verbose' = verbose]_vars

\* C6 amended: a line without operators leaves year, card number, variant,
\* trading-card flag and verbose flag unchanged; the card name is unchanged
\* when the line is blank and becomes the line otherwise.
C6_FieldsUnchangedNameReplaced ==
    [][ParsesNoOperatorLine =>
         /\ card_name' = IF new_card_name' = <<>> THEN card_name ELSE new_card_name'
         /\ year' = year
         /\ card_number' = card_number
         /\ variant_name' = variant_name
         /\ trading_card' = trading_card
         /\ verbose' = verbose]_vars

C6_Witness ==
    /\ Parsed
    /\ new_card_name = sMike \o <<" ", "=">>
    /\ card_name = new_card_name
    /\ card_number = s27
    /\ variant_name = sChrome
    /\ verbose

====
